---- MODULE Spec2Model ----
(***************************************************************************)
(* A model of PubSubDataFeed (src/containers/paper-trader/                 *)
(* pubsub_data_feed.py): one live feed that bridges the broker's push      *)
(* callback to Backtrader's pull-based _load().                            *)
(*                                                                         *)
(* Execution contexts modelled, each with its own position:                *)
(*   - the broker's delivery thread       (_pubsub_callback, atomic:       *)
(*     it only touches the thread-safe queue and the message's ack/nack);  *)
(*   - one monitor thread per start()     (_monitor_subscription and the   *)
(*     _reconnect it calls);                                               *)
(*   - one drain thread per start()       (_process_message_queue);        *)
(*     threads of one kind run the same code on the same object, so each   *)
(*     kind is kept as a bag of positions, and a thread that returned is   *)
(*     dropped from its bag;                                               *)
(*   - the engine thread                  (start, stop, _load).            *)
(* The transport (a subscription handle failing, subscribe() raising) is   *)
(* the environment and is nondeterministic.                                *)
(*                                                                         *)
(* ManagerSpec models MultiSymbolPubSubManager over two such feeds, each    *)
(* reduced to a record and to coarser steps.                               *)
(* AddSpec models the same manager from its construction, with the feeds   *)
(* added one by one and each bulk operation as one call.                   *)
(*                                                                         *)
(* ConvertSpec applies _process_market_data_message to one message drawn   *)
(* from the forms a timestamp can take.                                    *)
(*                                                                         *)
(* future.result(timeout) raising its timeout is taken to reach the        *)
(* `except TimeoutError` branch (line 127), as it does on Python >= 3.11.  *)
(* Nothing in the repository fixes the interpreter, so the conversion is   *)
(* modelled for both parsers of datetime.fromisoformat (py_full_iso).      *)
(***************************************************************************)
EXTENDS Naturals, Sequences, FiniteSets, Bags

\* ------------------------------------------------------------------ bounds
\* params max_buffer_size (line 30) and max_reconnect_attempts (line 33) are
\* configuration; the model runs with small values of them.
Capacity == 1
max_reconnect_attempts == 2
\* how many times start() is called, how many subscriptions the transport
\* grants, how many messages the callback puts into the queue
MaxStarts == 2
MaxFutures == 2
MaxEnqueued == 2
\* how many stop() calls are told apart
MaxStops == 2
\* how many different instants the timestamps of the messages name
MaxInstant == 2

\* --------------------------------------------------------------- messages
\* params symbol (line 26): the instrument this feed is bound to
p_symbol == "AAPL"

\* required_fields, line 207
required_fields == {"symbol", "timestamp", "open", "high", "low", "close", "volume"}

\* The payloads the broker may deliver.  A payload is either undecodable, or
\* a JSON object with a set of keys, a type and a symbol.  A payload
\* delivered after n - 1 messages were put into the queue carries timestamp
\* n and close 9 + n, so that queued bars are told apart and their arrival
\* order can be read off them.
\* The value of a message's 'timestamp' key, which is a JSON string or a JSON
\* number.  A string is kept as what tells its shapes apart for the parser:
\* how the date is written ("calendar" for YYYY-MM-DD, "ordinal" for
\* YYYY-DDD), how many digits follow the seconds' decimal point, and the
\* zone suffix; secs is the instant it denotes, in seconds.
NoTimestamp == [kind |-> "none", date |-> "", frac |-> 0, suffix |-> "", secs |-> 0]

IsoString(n, date, frac, suffix) ==
    [kind |-> "str", date |-> date, frac |-> frac, suffix |-> suffix, secs |-> n]

EpochSeconds(n) == [kind |-> "number", date |-> "", frac |-> 0, suffix |-> "", secs |-> n]

\* the form of the docstring's example, "2023-04-09T10:24:31.123456Z"
ExampleTimestamp(n) == IsoString(n, "calendar", 6, "Z")

NoMsg ==
    [id |-> 0, decodable |-> FALSE, type |-> "", symbol |-> "", fields |-> {},
     timestamp |-> NoTimestamp]

Undecodable(n) ==
    [id |-> n, decodable |-> FALSE, type |-> "", symbol |-> "", fields |-> {},
     timestamp |-> NoTimestamp]

ValidBar(n) ==
    [id |-> n, decodable |-> TRUE, type |-> "bar", symbol |-> p_symbol, fields |-> required_fields,
     timestamp |-> ExampleTimestamp(n)]

\* the required field the model's incomplete message lacks
dropped_field == "close"

Payloads(n) ==
    { Undecodable(n),
      ValidBar(n),
      [ValidBar(n) EXCEPT !.symbol = "MSFT"],
      [ValidBar(n) EXCEPT !.type = "trade"],
      [ValidBar(n) EXCEPT !.fields = required_fields \ {dropped_field}] }

\* message_data['close']
CloseOf(m) == 9 + m.id

\* The wire schema's validity (independent of the code): a bar message with
\* every required field.
IsValidBar(m) == m.decodable /\ m.type = "bar" /\ required_fields \subseteq m.fields

\* bar_data; NoBar stands for Python's None
NoBar == [datetime |-> 0, close |-> 0]

\* ------------------------------------------------------------------ state
VARIABLES
    max_buffer_size,        \* self.p.max_buffer_size, fixed at construction
    running,                \* self.running
    message_queue,          \* self.message_queue (queue.Queue of message_data)
    data_buffer,            \* self.data_buffer (deque(maxlen=max_buffer_size))
    last_bar,               \* self.last_bar
    reconnect_attempts,     \* self._reconnect_attempts
    streaming_pull_future,  \* self._streaming_pull_future: 0 is None, else an index into futures
    futures,                \* the subscription handles granted so far: "active", "error", "cancelled"
    monitor,                \* bag of the live _monitor_subscription threads' positions
    drain,                  \* bag of the live _process_message_queue threads: position, local message_data
    load_pc,                \* position of the engine thread inside _load
    load_result,            \* what the last _load call returned ("Pending" while one runs)
    lines,                  \* self.lines.*[0]: the bar the last successful _load set
    starts,                 \* how many times start() was called
    stops,                  \* how many times stop() was called (counted up to MaxStops)
    failed,                 \* whether a monitor gave up since the last start()
    enqueued,               \* how many messages _pubsub_callback put into the queue
    last_msg,               \* the message of the last _pubsub_callback invocation
    last_settle,            \* how that invocation settled it: "ack" or "nack"
    settled,                \* the calls that invocation made on its message, in order
    errors_seen,            \* subscription errors the monitors saw since the last successful subscribe
    arrivals,               \* history: the bars of the valid messages put into the queue, in arrival order
    ended_with,             \* history: the bars that were buffered when a _load call returned False
    data_feeds,             \* MultiSymbolPubSubManager.data_feeds: key -> feed (see NewFeed)
    manager,                \* the thread calling the manager: its position in start_all_feeds / stop_all_feeds
    status,                 \* the thread calling get_status: its position, and the dict it is building
    cerebro,                \* the feeds handed to cerebro.adddata, in order: key, and the object once the dict let go of it
    py_full_iso,            \* whether datetime.fromisoformat is the parser of Python >= 3.11
    conversion              \* ConvertSpec: the message handed to the conversion, and whether it was handled

feed_vars == <<max_buffer_size, running, message_queue, data_buffer, last_bar,
               reconnect_attempts, streaming_pull_future, futures, monitor, drain,
               load_pc, load_result, lines, starts, stops, failed, enqueued,
               last_msg, last_settle, settled, errors_seen, arrivals, ended_with>>

manager_vars == <<data_feeds, manager, status, cerebro>>

convert_vars == <<py_full_iso, conversion>>

vars == <<feed_vars, manager_vars, convert_vars>>

load_vars == <<load_pc, load_result, lines, ended_with>>
callback_vars == <<enqueued, last_msg, last_settle, settled, arrivals>>

\* whether stop() was ever called
stopped == stops > 0

\* the state __init__ leaves, lines 36-59, for a feed built with capacity c
Constructed(c) ==
    /\ max_buffer_size = c
    /\ running = FALSE
    /\ message_queue = <<>>
    /\ data_buffer = <<>>
    /\ last_bar = NoBar
    /\ reconnect_attempts = 0
    /\ streaming_pull_future = 0
    /\ futures = <<>>
    /\ monitor = EmptyBag
    /\ drain = EmptyBag
    /\ load_pc = "idle"
    /\ load_result = "NoCall"
    /\ lines = NoBar
    /\ starts = 0
    /\ stops = 0
    /\ failed = FALSE
    /\ enqueued = 0
    /\ last_msg = NoMsg
    /\ last_settle = "none"
    /\ settled = <<>>
    /\ errors_seen = 0
    /\ arrivals = <<>>
    /\ ended_with = {}

\* a manager without feeds, lines 322-325, that nobody calls
ManagerIdle == [pc |-> "idle", i |-> 0, returned |-> "none"]

\* no message is handed to the conversion on its own; the payloads of Spec,
\* ScenarioSpec and ManagerSpec carry timestamps that both parsers read
\* alike, so the parser is fixed there
NoConversion ==
    /\ py_full_iso = TRUE
    /\ conversion = [input |-> NoMsg, done |-> FALSE]

NoManager ==
    /\ data_feeds = <<>>
    /\ cerebro = <<>>
    /\ manager = ManagerIdle
    /\ status = [pc |-> "idle", i |-> 0, result |-> <<>>]
    /\ NoConversion

Init == Constructed(Capacity) /\ NoManager

\* ---------------------------------------------------------- pure helpers
\* json.loads(message.data.decode('utf-8')), line 106: raises on a bad payload
JsonLoads(m) == m.decodable

\* (mutation of SymbolMatches: no symbol filter)
SymbolMatches_Any(m) == TRUE

\* message_data.get('symbol') == self.p.symbol, line 109
SymbolMatches(m) == "symbol" \in m.fields /\ m.symbol = p_symbol

\* (mutation of TypeIsBar: the type is not looked at)
TypeIsBar_Any(m) == TRUE

\* message_data.get('type') != 'bar', line 204
TypeIsBar(m) == m.type = "bar"

\* (mutation of HasRequiredFields: the check is skipped)
HasRequiredFields_Skipped(m) == TRUE

\* all(field in message_data for field in required_fields), line 208
HasRequiredFields(m) == \A f \in required_fields : f \in m.fields

\* timestamp_str.replace('Z', '+00:00'), line 216
ReplaceZ(ts) == IF ts.suffix = "Z" THEN [ts EXCEPT !.suffix = "+00:00"] ELSE ts

\* datetime.fromisoformat(s) raising ValueError.  Before Python 3.11 it reads
\* what datetime.isoformat() writes and nothing else: a calendar date, no
\* fraction or one of exactly 3 or 6 digits, an offset as +HH:MM.  From 3.11
\* on it reads fractions of any length and a Z, but still no ordinal date.
FromIsoformatRaises(ts) ==
    \/ ts.date # "calendar"
    \/ ~py_full_iso /\ ts.frac \notin {0, 3, 6}
    \/ ~py_full_iso /\ ts.suffix = "Z"

\* lines 213-218: whether computing dt raises (a string goes through
\* fromisoformat, a number through fromtimestamp, which takes any epoch)
TimestampRaises(ts) ==
    IF ts.kind = "str" THEN FromIsoformatRaises(ReplaceZ(ts)) ELSE FALSE

\* dt of lines 213-218, as its instant in seconds
TimestampOf(m) == ReplaceZ(m.timestamp).secs

\* _process_market_data_message, lines 186-235: the bar, or NoBar for None;
\* anything raised inside is caught at line 233 and gives None
process_market_data_message(m) ==
    IF ~TypeIsBar(m) THEN NoBar
    ELSE IF ~HasRequiredFields(m) THEN NoBar
    ELSE IF TimestampRaises(m.timestamp) THEN NoBar
    ELSE [datetime |-> TimestampOf(m), close |-> CloseOf(m)]

\* (mutation of DequeAppend: a deque without maxlen)
DequeAppend_Unbounded(buf, bar) == Append(buf, bar)

\* (mutation of DequeAppend: a full buffer refuses the new bar)
DequeAppend_DropNewest(buf, bar) ==
    IF Len(buf) >= max_buffer_size THEN buf ELSE Append(buf, bar)

\* deque.append on a deque(maxlen=n), lines 50 and 174: a full deque drops
\* its leftmost item
DequeAppend(buf, bar) ==
    IF Len(buf) >= max_buffer_size
    THEN Append(Tail(buf), bar)
    ELSE Append(buf, bar)

\* a thread of a bag moves from position a to position b / returns
Moved(bag, a, b) == (bag (-) SetToBag({a})) (+) SetToBag({b})
Returned(bag, a) == bag (-) SetToBag({a})

\* what a thread spawned by start() begins with
MonitorStart == "loop"
DrainStart == [pc |-> "check", msg |-> NoMsg]

\* ---------------------------------------------------------------- actions
\* subscriber_client.subscribe(...) returning a new streaming-pull future,
\* lines 71-75 and 147-151
Subscribed == Append(futures, "active")

\* start, lines 61-81.  subscribe() either returns a handle, and the two
\* threads are spawned, or raises, and start() ends at line 71 with the
\* running flag already set.
StartCalled ==
    /\ starts' = starts + 1
    /\ running' = TRUE
    /\ failed' = FALSE
    /\ \/ /\ Len(futures) < MaxFutures
          /\ futures' = Subscribed
          /\ streaming_pull_future' = Len(futures')
          /\ monitor' = monitor (+) SetToBag({MonitorStart})
          /\ drain' = drain (+) SetToBag({DrainStart})
          /\ errors_seen' = 0
       \/ UNCHANGED <<futures, streaming_pull_future, monitor, drain, errors_seen>>
    /\ UNCHANGED <<manager_vars, convert_vars, max_buffer_size, message_queue, data_buffer, last_bar,
                   reconnect_attempts, stops>>
    /\ UNCHANGED <<load_vars, callback_vars>>

start ==
    /\ starts < MaxStarts
    /\ StartCalled

\* (mutation of Cancelled: stop() leaves the handle alone)
Cancelled_Never(fs, f) == fs

\* future.cancel(), line 93: only a live handle changes
Cancelled(fs, f) ==
    IF f # 0 /\ fs[f] = "active" THEN [fs EXCEPT ![f] = "cancelled"] ELSE fs

\* stop, lines 83-97.  Line 97 also closes the subscriber client; what a
\* later subscribe() on the closed client does is the transport's business,
\* and both of its outcomes (a handle, or an exception) stay possible.
stop ==
    /\ running' = FALSE
    /\ futures' = Cancelled(futures, streaming_pull_future)
    /\ stops' = IF stops < MaxStops THEN stops + 1 ELSE stops
    /\ UNCHANGED <<manager_vars, convert_vars, max_buffer_size, message_queue, data_buffer, last_bar,
                   reconnect_attempts, streaming_pull_future, monitor, drain,
                   starts, failed, errors_seen>>
    /\ UNCHANGED <<load_vars, callback_vars>>

\* _pubsub_callback, lines 99-119: what it leaves in the queue, and how it
\* settles the message
CallbackQueue(q, m) ==
    IF JsonLoads(m) /\ SymbolMatches(m) THEN Append(q, m) ELSE q

\* (mutation of CallbackSettle: every message is acknowledged)
CallbackSettle_AlwaysAck(m) == "ack"

\* (mutation of CallbackSettle: validation moved into the callback, which
\* rejects an incomplete message of its symbol)
CallbackSettle_NackIncomplete(m) ==
    IF JsonLoads(m) /\ (SymbolMatches(m) => HasRequiredFields(m)) THEN "ack" ELSE "nack"

\* lines 104-119: ack unless anything raised, then nack
CallbackSettle(m) == IF JsonLoads(m) THEN "ack" ELSE "nack"

\* (mutation of Settlements: the message is acknowledged on arrival, before
\* it is decoded)
Settlements_AckFirst(m) == IF JsonLoads(m) THEN <<"ack">> ELSE <<"ack", "nack">>

\* The calls the callback makes on its message.  ack() at line 114 is the
\* last statement of the try block, so nothing raises after it; nack() at
\* line 119 is in the handler, reached when line 106 or 109 raised.
Settlements(m) == IF JsonLoads(m) THEN <<"ack">> ELSE <<"nack">>

\* (mutation of QueuePutBlocks: a mailbox bounded to one message)
QueuePutBlocks_WhenFull(q) == Len(q) >= 1

\* message_queue.put(...), line 111, on the queue.Queue() of line 47: no
\* maxsize, so put never blocks
QueuePutBlocks(q) == FALSE

Callback(m) ==
    /\ (JsonLoads(m) /\ SymbolMatches(m)) => ~QueuePutBlocks(message_queue)
    /\ last_msg' = m
    /\ settled' = Settlements(m)
    /\ message_queue' = CallbackQueue(message_queue, m)
    /\ enqueued' = enqueued + Len(message_queue') - Len(message_queue)
    /\ last_settle' = CallbackSettle(m)
    /\ arrivals' = IF message_queue' # message_queue /\ IsValidBar(m)
                   THEN Append(arrivals, [datetime |-> TimestampOf(m), close |-> CloseOf(m)])
                   ELSE arrivals
    /\ UNCHANGED <<manager_vars, convert_vars, max_buffer_size, running, data_buffer, last_bar,
                   reconnect_attempts, streaming_pull_future, futures, monitor,
                   drain, starts, stops, failed, errors_seen>>
    /\ UNCHANGED load_vars

\* One delivery by the broker.  Messages reach the callback once a
\* subscription was opened; callbacks already dispatched still run after
\* the handle was cancelled or failed.
pubsub_callback ==
    /\ enqueued < MaxEnqueued
    /\ Len(futures) > 0
    /\ \E m \in Payloads(enqueued + 1) : Callback(m)

\* The transport: a live subscription handle completes with an error.
future_fails ==
    /\ \E f \in DOMAIN futures :
         /\ futures[f] = "active"
         /\ futures' = [futures EXCEPT ![f] = "error"]
    /\ UNCHANGED <<manager_vars, convert_vars, max_buffer_size, running, message_queue, data_buffer, last_bar,
                   reconnect_attempts, streaming_pull_future, monitor, drain,
                   starts, stops, failed, errors_seen>>
    /\ UNCHANGED <<load_vars, callback_vars>>

\* -------------------------------------------------- _monitor_subscription
\* (mutation of MayReconnect: one attempt too many)
MayReconnect_OneMore == running /\ reconnect_attempts <= max_reconnect_attempts

\* line 133: self.running and self._reconnect_attempts < max_reconnect_attempts
MayReconnect == running /\ reconnect_attempts < max_reconnect_attempts

\* One pass of the while loop, lines 123-137, by one monitor thread.
\*   - flag clear: the loop ends;
\*   - handle still live: result() times out, `continue` (no change);
\*   - handle cancelled: result() returns, the loop goes round (no change);
\*   - handle failed: result() raises; either _reconnect() is called
\*     (line 135) or the feed gives up (lines 136-137).
\* The test of line 133 and the count of line 141 are two statements of two
\* functions, and monitors of the same feed may run between them.
monitor_exit ==
    /\ BagIn("loop", monitor)
    /\ ~running
    /\ monitor' = Returned(monitor, "loop")
    /\ UNCHANGED <<manager_vars, convert_vars, max_buffer_size, running, message_queue, data_buffer, last_bar,
                   reconnect_attempts, streaming_pull_future, futures, drain,
                   starts, stops, failed, errors_seen>>
    /\ UNCHANGED <<load_vars, callback_vars>>

monitor_error ==
    /\ BagIn("loop", monitor)
    /\ running
    /\ futures[streaming_pull_future] = "error"
    /\ errors_seen' = errors_seen + 1
    /\ IF MayReconnect
       THEN /\ monitor' = Moved(monitor, "loop", "enter")
            /\ UNCHANGED <<running, failed>>
       ELSE /\ running' = FALSE
            /\ failed' = TRUE
            /\ monitor' = Returned(monitor, "loop")
    /\ UNCHANGED <<manager_vars, convert_vars, max_buffer_size, message_queue, data_buffer, last_bar,
                   reconnect_attempts, streaming_pull_future, futures, drain, starts, stops>>
    /\ UNCHANGED <<load_vars, callback_vars>>

\* _reconnect up to its sleep, lines 141-144: the attempt is counted
reconnect_count ==
    /\ BagIn("enter", monitor)
    /\ reconnect_attempts' = reconnect_attempts + 1
    /\ monitor' = Moved(monitor, "enter", "sleep")
    /\ UNCHANGED <<manager_vars, convert_vars, max_buffer_size, running, message_queue, data_buffer,
                   last_bar, streaming_pull_future, futures, drain, starts, stops, failed,
                   errors_seen>>
    /\ UNCHANGED <<load_vars, callback_vars>>

\* _reconnect after its sleep, lines 146-157: subscribe() returns a new
\* handle and the counter is reset, or it raises and nothing changes.
reconnect ==
    /\ BagIn("sleep", monitor)
    /\ monitor' = Moved(monitor, "sleep", "loop")
    /\ \/ /\ Len(futures) < MaxFutures
          /\ futures' = Subscribed
          /\ streaming_pull_future' = Len(futures')
          /\ reconnect_attempts' = 0
          /\ errors_seen' = 0
       \/ UNCHANGED <<futures, streaming_pull_future, reconnect_attempts, errors_seen>>
    /\ UNCHANGED <<manager_vars, convert_vars, max_buffer_size, running, message_queue, data_buffer, last_bar,
                   drain, starts, stops, failed>>
    /\ UNCHANGED <<load_vars, callback_vars>>

\* ------------------------------------------------- _process_message_queue
\* `while self.running`, line 164
drain_check ==
    /\ \E d \in BagToSet(drain) :
         /\ d.pc = "check"
         /\ drain' = IF running
                     THEN Moved(drain, d, [d EXCEPT !.pc = "get"])
                     ELSE Returned(drain, d)
    /\ UNCHANGED <<manager_vars, convert_vars, max_buffer_size, running, message_queue, data_buffer, last_bar,
                   reconnect_attempts, streaming_pull_future, futures, monitor,
                   starts, stops, failed, errors_seen>>
    /\ UNCHANGED <<load_vars, callback_vars>>

\* (mutation of GetTimesOut: get() without a timeout blocks until a message
\* comes)
GetTimesOut_Never == FALSE

\* get(timeout=self.p.qcheck), line 167: on an empty queue the call gives up
\* after qcheck seconds and raises queue.Empty
GetTimesOut == TRUE

\* message_queue.get(timeout=qcheck), line 167: a message, or queue.Empty
\* after the timeout (lines 180-182)
drain_get ==
    /\ \E d \in BagToSet(drain) :
         /\ d.pc = "get"
         /\ IF message_queue # <<>>
            THEN /\ drain' = Moved(drain, d, [pc |-> "process", msg |-> Head(message_queue)])
                 /\ message_queue' = Tail(message_queue)
            ELSE /\ GetTimesOut
                 /\ drain' = Moved(drain, d, [d EXCEPT !.pc = "check"])
                 /\ UNCHANGED message_queue
    /\ UNCHANGED <<manager_vars, convert_vars, max_buffer_size, running, data_buffer, last_bar,
                   reconnect_attempts, streaming_pull_future, futures, monitor,
                   starts, stops, failed, errors_seen>>
    /\ UNCHANGED <<load_vars, callback_vars>>

\* lines 170-174: convert; a bar is appended to the buffer
drain_process ==
    /\ \E d \in BagToSet(drain) :
         /\ d.pc = "process"
         /\ LET bar_data == process_market_data_message(d.msg) IN
              IF bar_data # NoBar
              THEN /\ data_buffer' = DequeAppend(data_buffer, bar_data)
                   /\ drain' = Moved(drain, d, [d EXCEPT !.pc = "set_last"])
              ELSE /\ UNCHANGED data_buffer
                   /\ drain' = Moved(drain, d, DrainStart)
    /\ UNCHANGED <<manager_vars, convert_vars, max_buffer_size, running, message_queue, last_bar,
                   reconnect_attempts, streaming_pull_future, futures, monitor,
                   starts, stops, failed, errors_seen>>
    /\ UNCHANGED <<load_vars, callback_vars>>

\* line 175: self.last_bar = bar_data
drain_set_last ==
    /\ \E d \in BagToSet(drain) :
         /\ d.pc = "set_last"
         /\ last_bar' = process_market_data_message(d.msg)
         /\ drain' = Moved(drain, d, DrainStart)
    /\ UNCHANGED <<manager_vars, convert_vars, max_buffer_size, running, message_queue, data_buffer,
                   reconnect_attempts, streaming_pull_future, futures, monitor,
                   starts, stops, failed, errors_seen>>
    /\ UNCHANGED <<load_vars, callback_vars>>

\* ------------------------------------------------------------------ _load
\* (mutation of LoadEnds: a feed whose monitor is inside _reconnect counts
\* as ended)
LoadEnds_WhileReconnecting == ~running \/ BagIn("enter", monitor) \/ BagIn("sleep", monitor)

\* (mutation of LoadEnds: a stopped feed still serves what is buffered)
LoadEnds_WhenDrained == ~running /\ data_buffer = <<>>

\* line 248: `if not self.running`
LoadEnds == ~running

\* (mutation of ResultOfBuffer: an empty buffer ends the stream)
ResultOfBuffer_EndsOnEmpty(buf) == IF buf = <<>> THEN "Ended" ELSE "Loaded"

\* (mutation of ResultOfBuffer: no emptiness test and no handler, popleft on
\* an empty deque raises out of _load)
ResultOfBuffer_RaisesOnEmpty(buf) == IF buf = <<>> THEN "Raised" ELSE "Loaded"

\* lines 253-271: None on an empty buffer, True after a popleft
ResultOfBuffer(buf) == IF buf = <<>> THEN "Empty" ELSE "Loaded"

\* lines 248-250: `if not self.running: return False`
load_check_running ==
    /\ load_pc = "idle"
    /\ IF LoadEnds
       THEN /\ load_result' = "Ended"
            /\ load_pc' = "idle"
            /\ ended_with' = ended_with \cup {data_buffer[k] : k \in DOMAIN data_buffer}
       ELSE /\ load_result' = "Pending"
            /\ load_pc' = "check_buffer"
            /\ UNCHANGED ended_with
    /\ UNCHANGED <<manager_vars, convert_vars, max_buffer_size, running, message_queue, data_buffer, last_bar,
                   reconnect_attempts, streaming_pull_future, futures, monitor,
                   drain, lines, starts, stops, failed, errors_seen>>
    /\ UNCHANGED callback_vars

\* lines 253-256: `if not self.data_buffer: return None`
load_buffer ==
    /\ load_pc = "check_buffer"
    /\ IF data_buffer = <<>>
       THEN /\ load_result' = ResultOfBuffer(data_buffer)
            /\ load_pc' = "idle"
       ELSE /\ load_result' = "Pending"
            /\ load_pc' = "popleft"
    /\ UNCHANGED <<manager_vars, convert_vars, max_buffer_size, running, message_queue, data_buffer, last_bar,
                   reconnect_attempts, streaming_pull_future, futures, monitor,
                   drain, lines, starts, stops, failed, errors_seen, ended_with>>
    /\ UNCHANGED callback_vars

\* lines 273-276: `except IndexError: return None if self.running else False`
PopleftRaised == IF running THEN "Empty" ELSE "Ended"

\* (mutation of Popleft: pop(), which takes the newest bar)
Popleft_Pop(buf) == [bar |-> buf[Len(buf)], rest |-> SubSeq(buf, 1, Len(buf) - 1)]

\* self.data_buffer.popleft(), line 259: the oldest bar, and what is left
Popleft(buf) == [bar |-> Head(buf), rest |-> Tail(buf)]

\* lines 258-276: popleft, set the lines and return True; popleft on an
\* empty deque raises IndexError, which the handler turns into a result
load_popleft ==
    /\ load_pc = "popleft"
    /\ load_pc' = "idle"
    /\ IF data_buffer = <<>>
       THEN /\ load_result' = PopleftRaised
            /\ UNCHANGED <<data_buffer, lines>>
       ELSE /\ load_result' = ResultOfBuffer(data_buffer)
            /\ data_buffer' = Popleft(data_buffer).rest
            /\ lines' = Popleft(data_buffer).bar
    /\ UNCHANGED <<manager_vars, convert_vars, max_buffer_size, running, message_queue, last_bar,
                   reconnect_attempts, streaming_pull_future, futures, monitor,
                   drain, starts, stops, failed, errors_seen, ended_with>>
    /\ UNCHANGED callback_vars

\* ---------------------------------------------------------- specification
Next ==
    \/ start
    \/ stop
    \/ pubsub_callback
    \/ future_fails
    \/ monitor_exit
    \/ monitor_error
    \/ reconnect_count
    \/ reconnect
    \/ drain_check
    \/ drain_get
    \/ drain_process
    \/ drain_set_last
    \/ load_check_running
    \/ load_buffer
    \/ load_popleft

Spec == Init /\ [][Next]_vars

\* ---------------------------------------------------------------- scenario
\* The feed of the design's worked example: capacity 3, started once, and
\* the broker delivers valid bars for the feed's symbol only (closes 10, 11,
\* 12, 13 in that order); the engine begins to pull once the four bars have
\* been drained.  Everything else runs as in Spec.
ScenarioInit == Constructed(3) /\ NoManager

AllDrained ==
    /\ enqueued = 4
    /\ message_queue = <<>>
    /\ \A d \in BagToSet(drain) : d.pc # "process"

engine_load ==
    /\ AllDrained
    /\ load_check_running

start_once ==
    /\ starts < 1
    /\ StartCalled

deliver_bar ==
    /\ enqueued < 4
    /\ Len(futures) > 0
    /\ Callback(ValidBar(enqueued + 1))

ScenarioNext ==
    \/ start_once
    \/ stop
    \/ deliver_bar
    \/ future_fails
    \/ monitor_exit
    \/ monitor_error
    \/ reconnect_count
    \/ reconnect
    \/ drain_check
    \/ drain_get
    \/ drain_process
    \/ drain_set_last
    \/ engine_load
    \/ load_buffer
    \/ load_popleft

ScenarioSpec == ScenarioInit /\ [][ScenarioNext]_vars

\* The scenario on a feed of capacity Capacity: the fourth, third and second
\* bar each find the ring buffer full.
OverflowSpec == Init /\ [][ScenarioNext]_vars

\* The scenario with its threads scheduled: the monitor and the drain thread
\* are daemon threads of the interpreter, every wait of theirs is timed
\* (result(timeout=1.0), sleep(reconnect_delay), get(timeout=qcheck)), so a
\* step of theirs that stays possible is eventually taken.  Nothing is
\* assumed about the engine, the broker or the transport.
ThreadsRun ==
    /\ WF_vars(monitor_exit)
    /\ WF_vars(monitor_error)
    /\ WF_vars(reconnect_count)
    /\ WF_vars(reconnect)
    /\ WF_vars(drain_check)
    /\ WF_vars(drain_get)
    /\ WF_vars(drain_process)
    /\ WF_vars(drain_set_last)

FairScenarioSpec == ScenarioSpec /\ ThreadsRun

\* The scenario's feed without the engine, and with start() callable again
\* (after stop(), or while the feed runs): what becomes of the bars the
\* callback queued.  The threads are scheduled as in FairScenarioSpec.
RestartNext ==
    \/ start
    \/ stop
    \/ deliver_bar
    \/ future_fails
    \/ monitor_exit
    \/ monitor_error
    \/ reconnect_count
    \/ reconnect
    \/ drain_check
    \/ drain_get
    \/ drain_process
    \/ drain_set_last

RestartSpec == ScenarioInit /\ [][RestartNext]_vars

FairRestartSpec == RestartSpec /\ ThreadsRun

\* The scenario's feed with bars whose timestamps do not follow their
\* arrival: the n-th bar delivered (close 9 + n) carries any of the
\* instants 1..MaxInstant.  start() may be called again; the subscription
\* stays up and the engine pulls at any time.
StampedBar(n, t) == [ValidBar(n) EXCEPT !.timestamp = ExampleTimestamp(t)]

deliver_stamped ==
    /\ enqueued < MaxEnqueued
    /\ Len(futures) > 0
    /\ \E t \in 1..MaxInstant : Callback(StampedBar(enqueued + 1, t))

StampedNext ==
    \/ start
    \/ deliver_stamped
    \/ drain_check
    \/ drain_get
    \/ drain_process
    \/ drain_set_last
    \/ load_check_running
    \/ load_buffer
    \/ load_popleft

StampedSpec == ScenarioInit /\ [][StampedNext]_vars


\* -------------------------------------------------------------- conversion
\* _process_market_data_message on its own: a new feed, one message of the
\* feed's symbol taken from the queue, and the rest of the drain pass
\* (lines 170-175) applied to it.  The message is a bar with every field, a
\* trade, or a bar without its close; its timestamp is a string or a
\* number.
TimestampForms ==
    {IsoString(n, date, frac, suffix) :
        n \in 1..MaxInstant, date \in {"calendar", "ordinal"},
        frac \in {0, 1, 3, 6, 9}, suffix \in {"Z", "+00:00"}}
    \cup {EpochSeconds(n) : n \in 1..MaxInstant}

ConvertInputs ==
    {[m EXCEPT !.timestamp = ts] :
        m \in {ValidBar(1),
                [ValidBar(1) EXCEPT !.type = "trade"],
                [ValidBar(1) EXCEPT !.fields = required_fields \ {dropped_field}]},
        ts \in TimestampForms}

ConvertInit ==
    /\ Constructed(Capacity)
    /\ data_feeds = <<>>
    /\ manager = ManagerIdle
    /\ status = [pc |-> "idle", i |-> 0, result |-> <<>>]
    /\ cerebro = <<>>
    /\ py_full_iso \in BOOLEAN
    /\ \E m \in ConvertInputs : conversion = [input |-> m, done |-> FALSE]

\* lines 170-175 on conversion.input
convert_message ==
    /\ ~conversion.done
    /\ conversion' = [conversion EXCEPT !.done = TRUE]
    /\ LET bar_data == process_market_data_message(conversion.input) IN
         IF bar_data # NoBar
         THEN /\ data_buffer' = DequeAppend(data_buffer, bar_data)
              /\ last_bar' = bar_data
         ELSE UNCHANGED <<data_buffer, last_bar>>
    /\ UNCHANGED <<manager_vars, py_full_iso, max_buffer_size, running, message_queue,
                   reconnect_attempts, streaming_pull_future, futures, monitor,
                   drain, starts, stops, failed, errors_seen>>
    /\ UNCHANGED <<load_vars, callback_vars>>

ConvertSpec == ConvertInit /\ [][convert_message]_vars

\* ----------------------------------------------------------------- manager
\* MultiSymbolPubSubManager over two feeds that were added for AAPL and MSFT
\* (add_market_data_feed, lines 327-346; a dict keeps insertion order).
\* Each feed is a record of the fields its operations touch.  A feed's
\* drain pass (lines 164-175) and its _load (lines 247-271) are single
\* steps here, and the broker delivers valid bars of the feed's own symbol
\* only: the finer interleavings and the other payloads are those of Spec.
\* The manager's caller is one thread, and start_all_feeds is called at most
\* once; get_status is called from a thread of its own.
feed_order == <<"AAPL", "MSFT">>

\* how many bars the broker delivers, over all feeds
MaxDelivered == 2

\* a PubSubDataFeed after __init__, lines 36-59
NewFeed ==
    [running |-> FALSE, future |-> "none", attempts |-> 0,
     monitor |-> "none", drain |-> "none",
     starts |-> 0, stopped |-> FALSE, failed |-> FALSE,
     queue |-> <<>>, buffer |-> <<>>, last_bar |-> NoBar, delivered |-> 0]

\* nobody calls get_status
StatusIdle == [pc |-> "idle", i |-> 0, result |-> <<>>]

ManagerInit ==
    /\ Constructed(Capacity)
    /\ data_feeds = [k \in {feed_order[n] : n \in DOMAIN feed_order} |-> NewFeed]
    /\ cerebro = [n \in DOMAIN feed_order |-> [key |-> feed_order[n], feed |-> NewFeed]]
    /\ manager = ManagerIdle
    /\ status = StatusIdle
    /\ NoConversion

\* (mutation of Updated: the deque is a class attribute, one object behind
\* every feed)
Updated_SharedBuffer(k, f) ==
    [j \in DOMAIN data_feeds |->
        IF j = k THEN f ELSE [data_feeds[j] EXCEPT !.buffer = f.buffer]]

\* What a method of feed k that leaves its object as f does to the feeds of
\* the manager: the queue, the deque and the other fields are instance
\* attributes made by __init__ (lines 47-56), so only feed k changes.
Updated(k, f) == [data_feeds EXCEPT ![k] = f]

\* feed.start(), lines 61-81, when subscribe() returns a handle
FeedStarted(f) ==
    [f EXCEPT !.running = TRUE, !.failed = FALSE, !.starts = f.starts + 1,
              !.future = "active", !.monitor = "loop", !.drain = "live"]

\* feed.start() when subscribe() raises at line 71
FeedStartRaised(f) ==
    [f EXCEPT !.running = TRUE, !.failed = FALSE, !.starts = f.starts + 1]

\* (mutation of StopRaises: stop() cancels without looking whether there is
\* a handle, and None.cancel() raises)
StopRaises_OnNoHandle(f) == f.future = "none"

\* feed.stop() raises nothing: line 92 skips the cancel when there is no
\* handle, and cancelling or closing twice is allowed
StopRaises(f) == FALSE

\* feed.stop(), lines 83-97
FeedStopped(f) ==
    [f EXCEPT !.running = FALSE, !.stopped = TRUE,
              !.future = IF f.future = "active" THEN "cancelled" ELSE f.future]

\* (mutation of get_buffer_status: the size reported counts the messages
\* still in the queue as well)
get_buffer_status_WithQueue(k) ==
    [symbol |-> k,
     buffer_size |-> Len(data_feeds[k].buffer) + Len(data_feeds[k].queue),
     max_buffer_size |-> max_buffer_size,
     last_bar_time |-> data_feeds[k].last_bar.datetime,
     running |-> data_feeds[k].running]

\* get_buffer_status, lines 303-313; a last_bar_time of 0 stands for None
get_buffer_status(k) ==
    [symbol |-> k,
     buffer_size |-> Len(data_feeds[k].buffer),
     max_buffer_size |-> max_buffer_size,
     last_bar_time |-> data_feeds[k].last_bar.datetime,
     running |-> data_feeds[k].running]

\* get_status, lines 381-388
get_status == [k \in DOMAIN data_feeds |-> get_buffer_status(k)]

\* start_all_feeds, lines 367-372: the call, one pass of the loop, the return
start_all_feeds_call ==
    /\ manager.pc = "idle"
    /\ \A k \in DOMAIN data_feeds : data_feeds[k].starts = 0
    /\ manager' = [pc |-> "start_all", i |-> 1, returned |-> "none"]
    /\ UNCHANGED <<feed_vars, convert_vars, cerebro, data_feeds, status>>

start_all_feeds_step ==
    /\ manager.pc = "start_all"
    /\ manager.i <= Len(feed_order)
    /\ LET k == feed_order[manager.i] IN
         \/ /\ data_feeds' = Updated(k, FeedStarted(data_feeds[k]))
            /\ manager' = [manager EXCEPT !.i = @ + 1]
         \/ /\ data_feeds' = Updated(k, FeedStartRaised(data_feeds[k]))
            /\ manager' = [pc |-> "idle", i |-> 0, returned |-> "start_all_raised"]
    /\ UNCHANGED <<feed_vars, convert_vars, cerebro, status>>

start_all_feeds_return ==
    /\ manager.pc = "start_all"
    /\ manager.i > Len(feed_order)
    /\ manager' = [pc |-> "idle", i |-> 0, returned |-> "start_all"]
    /\ UNCHANGED <<feed_vars, convert_vars, cerebro, data_feeds, status>>

\* stop_all_feeds, lines 374-379: the call, one pass of the loop, the return
stop_all_feeds_call ==
    /\ manager.pc = "idle"
    /\ manager' = [pc |-> "stop_all", i |-> 1, returned |-> "none"]
    /\ UNCHANGED <<feed_vars, convert_vars, cerebro, data_feeds, status>>

stop_all_feeds_step ==
    /\ manager.pc = "stop_all"
    /\ manager.i <= Len(feed_order)
    /\ LET k == feed_order[manager.i] IN
         IF StopRaises(data_feeds[k])
         THEN /\ manager' = [pc |-> "idle", i |-> 0, returned |-> "stop_all_raised"]
              /\ UNCHANGED data_feeds
         ELSE /\ data_feeds' = Updated(k, FeedStopped(data_feeds[k]))
              /\ manager' = [manager EXCEPT !.i = @ + 1]
    /\ UNCHANGED <<feed_vars, convert_vars, cerebro, status>>

stop_all_feeds_return ==
    /\ manager.pc = "stop_all"
    /\ manager.i > Len(feed_order)
    /\ manager' = [pc |-> "idle", i |-> 0, returned |-> "stop_all"]
    /\ UNCHANGED <<feed_vars, convert_vars, cerebro, data_feeds, status>>

\* get_status, lines 381-388: the call, one feed.get_buffer_status() of the
\* comprehension, the return of the dict to the caller
get_status_call ==
    /\ status.pc = "idle"
    /\ status' = [pc |-> "get_status", i |-> 1, result |-> <<>>]
    /\ UNCHANGED <<feed_vars, convert_vars, cerebro, data_feeds, manager>>

get_status_step ==
    /\ status.pc = "get_status"
    /\ status.i <= Len(feed_order)
    /\ LET k == feed_order[status.i] IN
         status' = [status EXCEPT !.i = @ + 1,
                                  !.result = Append(@, get_buffer_status(k))]
    /\ UNCHANGED <<feed_vars, convert_vars, cerebro, data_feeds, manager>>

get_status_return ==
    /\ status.pc = "get_status"
    /\ status.i > Len(feed_order)
    /\ status' = StatusIdle
    /\ UNCHANGED <<feed_vars, convert_vars, cerebro, data_feeds, manager>>

\* The transport: the live handle of feed k completes with an error.
FeedFutureFails(k) ==
    /\ data_feeds[k].future = "active"
    /\ data_feeds' = Updated(k, [data_feeds[k] EXCEPT !.future = "error"])
    /\ UNCHANGED <<feed_vars, convert_vars, cerebro, manager, status>>

feed_future_fails == \E k \in DOMAIN data_feeds : FeedFutureFails(k)

\* (mutation of Attempted: _reconnect does not count its attempts)
Attempted_NotCounted(n) == n

\* self._reconnect_attempts += 1, line 141
Attempted(n) == n + 1

\* _monitor_subscription of feed k, lines 121-137: the loop ends on a clear
\* flag; an error either enters _reconnect (lines 141, 144) or gives up
FeedMonitor(k) ==
    LET f == data_feeds[k] IN
      /\ f.monitor = "loop"
      /\ \/ /\ ~f.running
            /\ data_feeds' = Updated(k, [f EXCEPT !.monitor = "none"])
         \/ /\ f.running
            /\ f.future = "error"
            /\ data_feeds' =
                 IF f.attempts < max_reconnect_attempts
                 THEN Updated(k, [f EXCEPT !.attempts = Attempted(@),
                                           !.monitor = "sleep"])
                 ELSE Updated(k, [f EXCEPT !.running = FALSE,
                                           !.failed = TRUE,
                                           !.monitor = "none"])
      /\ UNCHANGED <<feed_vars, convert_vars, cerebro, manager, status>>

feed_monitor == \E k \in DOMAIN data_feeds : FeedMonitor(k)

\* _reconnect of feed k after its sleep, lines 146-157
FeedReconnect(k) ==
    LET f == data_feeds[k] IN
      /\ f.monitor = "sleep"
      /\ \/ data_feeds' = Updated(k, [f EXCEPT !.monitor = "loop",
                                               !.future = "active",
                                               !.attempts = 0])
         \/ data_feeds' = Updated(k, [f EXCEPT !.monitor = "loop"])
      /\ UNCHANGED <<feed_vars, convert_vars, cerebro, manager, status>>

feed_reconnect == \E k \in DOMAIN data_feeds : FeedReconnect(k)

\* _process_message_queue of feed k, lines 164-182: the thread leaves its
\* loop once it sees the flag clear
FeedDrainExit(k) ==
    /\ data_feeds[k].drain = "live"
    /\ ~data_feeds[k].running
    /\ data_feeds' = Updated(k, [data_feeds[k] EXCEPT !.drain = "none"])
    /\ UNCHANGED <<feed_vars, convert_vars, cerebro, manager, status>>

feed_drain_exit == \E k \in DOMAIN data_feeds : FeedDrainExit(k)

\* the bars delivered so far, over all feeds
RECURSIVE Delivered(_)
Delivered(n) ==
    IF n = 0 THEN 0 ELSE data_feeds[feed_order[n]].delivered + Delivered(n - 1)

\* _pubsub_callback of feed k, lines 99-119, on a valid bar of its symbol:
\* the message is put into the feed's queue
FeedDeliver(k) ==
    LET f == data_feeds[k] IN
      /\ Delivered(Len(feed_order)) < MaxDelivered
      /\ f.future # "none"
      /\ data_feeds' = Updated(k, [f EXCEPT !.delivered = @ + 1,
                                            !.queue = Append(@, ValidBar(f.delivered + 1))])
      /\ UNCHANGED <<feed_vars, convert_vars, cerebro, manager, status>>

feed_deliver == \E k \in DOMAIN data_feeds : FeedDeliver(k)

\* one pass of the loop of _process_message_queue of feed k, lines 164-175:
\* a message is taken from the queue, converted and buffered
FeedDrain(k) ==
    LET f == data_feeds[k]
        bar_data == process_market_data_message(Head(f.queue))
    IN
      /\ f.drain = "live"
      /\ f.running
      /\ f.queue # <<>>
      /\ data_feeds' = Updated(k, [f EXCEPT !.queue = Tail(@),
                                            !.buffer = DequeAppend(@, bar_data),
                                            !.last_bar = bar_data])
      /\ UNCHANGED <<feed_vars, convert_vars, cerebro, manager, status>>

feed_drain == \E k \in DOMAIN data_feeds : FeedDrain(k)

\* _load of feed k returning True, lines 247-271: the oldest bar is popped
FeedLoad(k) ==
    LET f == data_feeds[k] IN
      /\ f.running
      /\ f.buffer # <<>>
      /\ data_feeds' = Updated(k, [f EXCEPT !.buffer = Tail(@)])
      /\ UNCHANGED <<feed_vars, convert_vars, cerebro, manager, status>>

feed_load == \E k \in DOMAIN data_feeds : FeedLoad(k)

\* the manager with its feeds' supervision only: no message is delivered
SupervisionNext ==
    \/ start_all_feeds_call
    \/ start_all_feeds_step
    \/ start_all_feeds_return
    \/ stop_all_feeds_call
    \/ stop_all_feeds_step
    \/ stop_all_feeds_return
    \/ feed_future_fails
    \/ feed_monitor
    \/ feed_reconnect
    \/ feed_drain_exit

ManagerNext ==
    \/ start_all_feeds_call
    \/ start_all_feeds_step
    \/ start_all_feeds_return
    \/ stop_all_feeds_call
    \/ stop_all_feeds_step
    \/ stop_all_feeds_return
    \/ get_status_call
    \/ get_status_step
    \/ get_status_return
    \/ feed_future_fails
    \/ feed_monitor
    \/ feed_reconnect
    \/ feed_drain_exit
    \/ feed_deliver
    \/ feed_drain
    \/ feed_load

ManagerSpec == ManagerInit /\ [][ManagerNext]_vars

\* The supervision with the monitor thread of every feed scheduled (its
\* waits are timed: result(timeout=1.0), sleep(reconnect_delay)).  Nothing is
\* assumed about the transport or the manager's caller.
MonitorsRun ==
    \A k \in {feed_order[n] : n \in DOMAIN feed_order} :
        WF_vars(FeedMonitor(k)) /\ WF_vars(FeedReconnect(k))

FairSupervisionSpec == ManagerInit /\ [][SupervisionNext]_vars /\ MonitorsRun

\* ------------------------------------------------------------ registration
\* The manager from its construction (data_feeds = {}, line 323): feeds are
\* added, before or after the bulk operations, and the bulk operations run
\* one at a time on one thread.  Nothing else acts on the feeds.
MaxAdds == 3
symbols == {"AAPL", "MSFT"}
alternative_data_types == {"news"}

\* the object behind entry j of cerebro: the dict's value while the dict
\* holds it, else what it was when the dict's key was given to another feed
Held(j) == \A i \in DOMAIN cerebro : (i > j) => cerebro[i].key # cerebro[j].key
FeedObject(j) == IF Held(j) THEN data_feeds[cerebro[j].key] ELSE cerebro[j].feed

\* lines 331-343 and 352-363: a feed is made, handed to cerebro and stored
\* under the key; a feed stored there before is no longer in the dict
AddFeed(key) ==
    /\ manager.pc = "idle"
    /\ Len(cerebro) < MaxAdds
    /\ cerebro' = Append([j \in DOMAIN cerebro |->
                             IF cerebro[j].key = key
                             THEN [cerebro[j] EXCEPT !.feed = FeedObject(j)]
                             ELSE cerebro[j]],
                         [key |-> key, feed |-> NewFeed])
    /\ data_feeds' = [k \in DOMAIN data_feeds \cup {key} |->
                         IF k = key THEN NewFeed ELSE data_feeds[k]]
    /\ manager' = [manager EXCEPT !.returned = "add"]
    /\ UNCHANGED <<feed_vars, convert_vars, status>>

\* add_market_data_feed, lines 327-346
add_market_data_feed == \E symbol \in symbols : AddFeed(symbol)

\* add_alternative_data_feed, lines 348-365
add_alternative_data_feed ==
    \E data_type \in alternative_data_types : AddFeed("alt-" \o data_type)

\* the keys of the dict in the order a loop over it visits them: the order
\* of their first insertion
RECURSIVE KeyOrder(_)
KeyOrder(n) ==
    IF n = 0 THEN <<>>
    ELSE IF \E i \in 1..(n - 1) : cerebro[i].key = cerebro[n].key
         THEN KeyOrder(n - 1)
         ELSE Append(KeyOrder(n - 1), cerebro[n].key)

\* start_all_feeds as one call, lines 367-372: every value of the dict is
\* started in turn; a start() that raises ends the loop
start_all_feeds ==
    /\ manager.pc = "idle"
    /\ data_feeds # <<>>
    /\ \A k \in DOMAIN data_feeds : data_feeds[k].starts < MaxStarts
    /\ LET order == KeyOrder(Len(cerebro)) IN
         \E n \in 1..(Len(order) + 1) :
            /\ data_feeds' = [k \in DOMAIN data_feeds |->
                                 LET at == CHOOSE i \in DOMAIN order : order[i] = k IN
                                 IF at < n THEN FeedStarted(data_feeds[k])
                                 ELSE IF at = n THEN FeedStartRaised(data_feeds[k])
                                 ELSE data_feeds[k]]
            /\ manager' = [manager EXCEPT !.returned =
                               IF n > Len(order) THEN "start_all" ELSE "start_all_raised"]
    /\ UNCHANGED <<feed_vars, convert_vars, cerebro, status>>

\* stop_all_feeds as one call, lines 374-379
stop_all_feeds ==
    /\ manager.pc = "idle"
    /\ data_feeds # <<>>
    /\ data_feeds' = [k \in DOMAIN data_feeds |-> FeedStopped(data_feeds[k])]
    /\ manager' = [manager EXCEPT !.returned = "stop_all"]
    /\ UNCHANGED <<feed_vars, convert_vars, cerebro, status>>

\* get_status as one call, lines 381-388: the dict is returned
status_all ==
    /\ manager.pc = "idle"
    /\ status' = [status EXCEPT !.result = get_status]
    /\ manager' = [manager EXCEPT !.returned = "status"]
    /\ UNCHANGED <<feed_vars, convert_vars, cerebro, data_feeds>>

AddNext ==
    \/ add_market_data_feed
    \/ add_alternative_data_feed
    \/ start_all_feeds
    \/ stop_all_feeds
    \/ status_all

AddSpec == Init /\ [][AddNext]_vars

\* ================================================================== claims
BufferSet == {data_buffer[k] : k \in DOMAIN data_buffer}

Range(seq) == {seq[k] : k \in DOMAIN seq}
Closes(seq) == [k \in DOMAIN seq |-> seq[k].close]
Min(a, b) == IF a <= b THEN a ELSE b
LastN(seq, n) == SubSeq(seq, Len(seq) - n + 1, Len(seq))

\* every message put into the queue has been taken out and processed
Drained ==
    /\ message_queue = <<>>
    /\ \A d \in BagToSet(drain) : d.pc # "process"

\* a step that is an invocation of _pubsub_callback
CallbackStep == last_msg' # last_msg \/ enqueued' # enqueued

\* a decodable message for the feed's symbol that lacks a required field
Incomplete(m) ==
    /\ m.decodable
    /\ "symbol" \in m.fields /\ m.symbol = p_symbol
    /\ ~(required_fields \subseteq m.fields)

\* a step of the engine thread inside _load
\* a monitor saw its handle fail
ErrorObserved == errors_seen' = errors_seen + 1

LoadStep == load_pc' # load_pc \/ load_result' # load_result \/ lines' # lines

\* C1: in every reachable state the ring buffer holds at most
\* max_buffer_size bars.
C1_BufferWithinCapacity == Len(data_buffer) <= max_buffer_size

\* C1's case: the buffer is full and a bar that was pushed (it is the
\* last-bar snapshot) and never loaded is no longer in it: it was evicted.
C1_Witness ==
    /\ Len(data_buffer) = max_buffer_size
    /\ last_bar # NoBar
    /\ last_bar \notin BufferSet
    /\ lines = NoBar

\* C3: a _load step taken while the feed is running and the buffer is empty
\* never returns Ended, and when it returns it returns Empty.
C3_EmptyWhileRunning ==
    [][(LoadStep /\ running /\ data_buffer = <<>>)
          => /\ load_result' \in {"Pending", "Empty"}
             /\ (load_pc' = "idle" => load_result' = "Empty")]_vars

\* C3's case: _load has just returned Empty on a running feed with an empty
\* buffer.
C3_Witness ==
    /\ running
    /\ data_buffer = <<>>
    /\ load_pc = "idle"
    /\ load_result = "Empty"

\* C4 as stated: a _load call on a feed that is not running returns Ended
\* and leaves the buffer alone, and a bar that was buffered at such a call is
\* never returned by any _load.
C4_Original ==
    [][/\ (LoadStep /\ load_pc = "idle" /\ ~running)
            => /\ load_result' = "Ended"
               /\ load_pc' = "idle"
               /\ UNCHANGED <<data_buffer, lines>>
       /\ (LoadStep /\ load_result' = "Loaded") => lines' \notin ended_with]_vars

\* The part of C4 that the code keeps: a _load call on a feed whose running
\* flag is false returns Ended at once and pops nothing, whatever the buffer
\* holds.  The buffer is not cleared, which is how C4_Original fails: a
\* later start() makes the bars of before loadable.
C4_EndedWhileNotRunning ==
    [][(LoadStep /\ load_pc = "idle" /\ ~running)
          => /\ load_result' = "Ended"
             /\ load_pc' = "idle"
             /\ UNCHANGED <<data_buffer, lines>>]_vars

\* _load returned Ended on a stopped feed that still buffers a bar.
C4_Witness ==
    /\ ~running
    /\ stopped
    /\ data_buffer # <<>>
    /\ load_pc = "idle"
    /\ load_result = "Ended"

\* C2: once every valid bar put into the queue has been drained, and no
\* _load has popped anything, the buffer is exactly the last
\* min(N, max_buffer_size) of them, in arrival order.
C2_RetainsMostRecent ==
    (Drained /\ lines = NoBar)
        => data_buffer = LastN(arrivals, Min(Len(arrivals), max_buffer_size))

\* C5 as stated: the max_reconnect_attempts-th consecutive subscription
\* error makes the feed FAILED (here on a feed started once, so that a
\* single monitor counts the errors).
C5_Original ==
    [][(starts = 1 /\ errors_seen' # errors_seen /\ errors_seen' = max_reconnect_attempts)
          => (failed' /\ ~running')]_vars

\* C5 amended: the error observed when the attempt count has reached
\* max_reconnect_attempts makes the feed FAILED (running flag false), and
\* an error observed on a running feed below that count does not; on a feed
\* started once that error is the (max_reconnect_attempts + 1)-th
\* consecutive one with no successful subscribe in between.  As long as
\* start() is not called the feed stays FAILED and not running, and every
\* _load call made then returns Ended.
C5_FailedAfterOneMoreError ==
    [][/\ (ErrorObserved /\ reconnect_attempts >= max_reconnect_attempts)
            => (failed' /\ ~running')
       /\ (ErrorObserved /\ running /\ reconnect_attempts < max_reconnect_attempts)
            => (~failed' /\ running')
       /\ (starts = 1 /\ ErrorObserved /\ errors_seen' > max_reconnect_attempts)
            => (failed' /\ ~running')
       /\ (failed /\ starts' = starts) => (failed' /\ ~running')
       /\ (failed /\ LoadStep /\ load_pc = "idle") => load_result' = "Ended"]_vars

\* C5's case: the monitor gave up on the error after the last allowed
\* attempt, and a later _load returned Ended.
C5_Witness ==
    /\ starts = 1
    /\ failed
    /\ errors_seen = max_reconnect_attempts + 1
    /\ reconnect_attempts = max_reconnect_attempts
    /\ load_pc = "idle"
    /\ load_result = "Ended"

\* C6: a message that fails validation never enters the ring buffer: every
\* bar in the buffer, in the last-bar snapshot or returned by _load comes
\* from a valid message, and the drain step that handles an invalid message
\* leaves the buffer as it was.
C6_InvalidNeverBuffered ==
    [][/\ (BufferSet' \cup ({lines', last_bar'} \ {NoBar})) \subseteq Range(arrivals')
       /\ \A d \in BagToSet(drain) :
            (d.pc = "process" /\ ~IsValidBar(d.msg) /\ CopiesIn(d, drain') < CopiesIn(d, drain))
                => data_buffer' = data_buffer]_vars

\* C6's case: the last message put into the queue lacked its close, the
\* drain routine has handled it, and the buffer still holds the bar it held.
C6_Witness ==
    /\ Incomplete(last_msg)
    /\ "close" \notin last_msg.fields
    /\ last_msg.id = enqueued
    /\ Drained
    /\ \A d \in BagToSet(drain) : d.msg # last_msg
    /\ data_buffer # <<>>

C8_UndecodableIsNacked ==
    [][(CallbackStep /\ ~last_msg'.decodable)
          => /\ last_settle' = "nack"
             /\ UNCHANGED <<message_queue, enqueued, data_buffer, running,
                            reconnect_attempts>>]_vars

\* C8's case: the callback has just handled an undecodable payload.
C8_Witness ==
    /\ last_msg.id > 0
    /\ ~last_msg.decodable
    /\ last_settle = "nack"

\* C9: the callback acknowledges a decodable message of another symbol, does
\* not put it into the queue and leaves the buffer unchanged.
C9_OtherSymbolIsAckedAndDropped ==
    [][(CallbackStep /\ last_msg'.decodable /\ last_msg'.symbol # p_symbol)
          => /\ last_settle' = "ack"
             /\ UNCHANGED <<message_queue, enqueued, data_buffer>>]_vars

\* C9's case: an MSFT message was handled while the feed buffers a bar.
C9_Witness ==
    /\ last_msg.decodable
    /\ last_msg.symbol = "MSFT"
    /\ last_settle = "ack"
    /\ data_buffer # <<>>

\* C10 as stated (capacity 3, bars 10, 11, 12, 13 delivered and drained):
\* the buffer is [11, 12, 13]; the loads return Loaded(11), Loaded(12) and
\* then Empty; after stop() the next load returns Ended.
C10_Original ==
    [][/\ (AllDrained' /\ lines' = NoBar) => Closes(data_buffer') = <<11, 12, 13>>
       /\ (LoadStep /\ load_pc' = "idle" /\ running /\ lines = NoBar)
            => (load_result' = "Loaded" /\ lines'.close = 11)
       /\ (LoadStep /\ load_pc' = "idle" /\ running /\ lines.close = 11)
            => (load_result' = "Loaded" /\ lines'.close = 12)
       /\ (LoadStep /\ load_pc' = "idle" /\ running /\ lines.close = 12)
            => load_result' = "Empty"
       /\ (LoadStep /\ load_pc = "idle" /\ stopped /\ ~running)
            => load_result' = "Ended"]_vars

\* C10 amended: the buffer is [11, 12, 13]; the loads return Loaded(11),
\* Loaded(12), Loaded(13), each popping the oldest bar, and only the fourth
\* returns Empty; after stop() the next load returns Ended.
C10_Scenario ==
    [][/\ (AllDrained' /\ lines' = NoBar) => Closes(data_buffer') = <<11, 12, 13>>
       /\ (LoadStep /\ load_pc' = "idle" /\ running /\ lines = NoBar)
            => (load_result' = "Loaded" /\ lines'.close = 11
                  /\ Closes(data_buffer') = <<12, 13>>)
       /\ (LoadStep /\ load_pc' = "idle" /\ running /\ lines.close = 11)
            => (load_result' = "Loaded" /\ lines'.close = 12
                  /\ Closes(data_buffer') = <<13>>)
       /\ (LoadStep /\ load_pc' = "idle" /\ running /\ lines.close = 12)
            => (load_result' = "Loaded" /\ lines'.close = 13
                  /\ data_buffer' = <<>>)
       /\ (LoadStep /\ load_pc' = "idle" /\ running /\ lines.close = 13)
            => (load_result' = "Empty" /\ lines' = lines /\ data_buffer' = <<>>)
       /\ (LoadStep /\ load_pc = "idle" /\ stopped /\ ~running)
            => load_result' = "Ended"]_vars

\* C10's case: the scenario ran to its end: the four bars were drained, the
\* loads went up to bar 13 and emptied the buffer, stop() was called and the
\* load after it returned Ended.
C10_Witness ==
    /\ max_buffer_size = 3
    /\ Closes(arrivals) = <<10, 11, 12, 13>>
    /\ lines.close = 13
    /\ data_buffer = <<>>
    /\ stopped
    /\ load_pc = "idle"
    /\ load_result = "Ended"

\* C11: the bars returned as Loaded follow the arrival order of the valid
\* messages the callback enqueued: every bar returned was enqueued, and it
\* arrived after the bar returned before it (so none is returned twice).
C11_LoadedInArrivalOrder ==
    [][(load_pc = "popleft" /\ load_result' = "Loaded")
          => /\ lines' \in Range(arrivals)
             /\ lines'.datetime > lines.datetime]_vars

\* C12: _load never raises: a call that has returned has returned Loaded,
\* Empty or Ended, and the deque is never found empty at popleft (the drain
\* routine only appends, and an append onto a full deque leaves it full).
C12_LoadNeverRaises ==
    /\ load_result \in {"NoCall", "Pending", "Loaded", "Empty", "Ended"}
    /\ (load_pc = "idle" /\ load_result # "NoCall")
          => load_result \in {"Loaded", "Empty", "Ended"}
    /\ load_pc = "popleft" => data_buffer # <<>>

\* C12's case: a _load call returned Loaded on a feed that stop() had
\* stopped before any _load returned Ended, as when stop() comes between the
\* call's running test and its popleft.
C12_Witness ==
    /\ load_pc = "idle"
    /\ load_result = "Loaded"
    /\ ~running
    /\ stopped
    /\ ended_with = {}
    /\ lines = last_bar
    /\ Len(arrivals) = 2

\* the handle stop() cancels is no longer live
HandleCancelled ==
    streaming_pull_future # 0 => futures[streaming_pull_future] # "active"

\* C13: stop() can be called in every state; it leaves the running flag
\* false and the current subscription handle cancelled, and a stop() on a
\* feed that is already in that state changes nothing but the call count.
C13_StopIdempotent ==
    [][stop => /\ ~running'
               /\ stopped'
               /\ HandleCancelled'
               /\ (stopped /\ ~running /\ HandleCancelled)
                     => UNCHANGED <<manager_vars, convert_vars, max_buffer_size, running, message_queue,
                                    data_buffer, last_bar, reconnect_attempts,
                                    streaming_pull_future, futures, monitor,
                                    drain, load_vars, starts, failed,
                                    callback_vars, errors_seen>>]_vars

\* stop() has no precondition
C13_StopAlwaysCallable == ENABLED stop

\* C13's case: stop() was called twice on a started feed, whose handle is
\* cancelled.
C13_Witness ==
    /\ stops = 2
    /\ ~running
    /\ streaming_pull_future # 0
    /\ futures[streaming_pull_future] = "cancelled"

\* C14 as stated: once stop() has returned (and the feed was not started
\* again) every message delivered to the callback is acknowledged and not
\* put into the queue, and no bar enters the ring buffer.
C14_Original ==
    [][(stopped /\ ~running /\ ~running')
          => /\ CallbackStep => (last_settle' = "ack" /\ message_queue' = message_queue)
             /\ BufferSet' \subseteq BufferSet]_vars

\* C15 as stated: once stop() has been called the running flag never becomes
\* true again, and every _load call made from then on returns Ended.
C15_Original ==
    [][/\ stopped => ~running'
       /\ (stopped /\ LoadStep /\ load_pc = "idle") => load_result' = "Ended"]_vars

\* a monitor inside _reconnect obtained a new handle
ResubscribeStep ==
    /\ Len(futures') > Len(futures)
    /\ starts' = starts

\* a monitor that entered _reconnect reaches its backoff
AttemptCounted ==
    /\ BagIn("enter", monitor)
    /\ monitor' = Moved(monitor, "enter", "sleep")

\* C19 as stated: an error observed with the flag set and the attempt count
\* below the maximum counts one attempt and enters the backoff; when the
\* re-subscribe succeeds the count is 0 and the feed is running with the
\* new handle.
C19_Original ==
    [][/\ (ErrorObserved /\ MayReconnect)
            => /\ monitor' = Moved(monitor, "loop", "enter")
               /\ running'
       /\ AttemptCounted
            => /\ reconnect_attempts' = reconnect_attempts + 1
               /\ running' = running
       /\ ResubscribeStep
            => /\ reconnect_attempts' = 0
               /\ streaming_pull_future' = Len(futures')
               /\ futures'[streaming_pull_future'] = "active"
               /\ running']_vars

\* The part of C19 that the code keeps: the count, the backoff, the new
\* handle and the reset.  The flag is not looked at after the backoff.
C19_CountsAndResets ==
    [][/\ (ErrorObserved /\ MayReconnect)
            => /\ monitor' = Moved(monitor, "loop", "enter")
               /\ running'
       /\ AttemptCounted
            => /\ reconnect_attempts' = reconnect_attempts + 1
               /\ running' = running
       /\ ResubscribeStep
            => /\ reconnect_attempts' = 0
               /\ streaming_pull_future' = Len(futures')
               /\ futures'[streaming_pull_future'] = "active"
               /\ running' = running]_vars

\* a monitor is inside _reconnect, and the feed was neither stopped nor
\* given up
Reconnecting ==
    /\ BagIn("enter", monitor) \/ BagIn("sleep", monitor)
    /\ ~stopped
    /\ ~failed

\* C20: while the feed is reconnecting, a _load call never returns Ended: it
\* returns Empty on an empty buffer and Loaded otherwise.
C20_LiveWhileReconnecting ==
    [][(Reconnecting /\ LoadStep)
          => /\ load_result' \in {"Pending", "Loaded", "Empty"}
             /\ load_pc' = "idle"
                  => load_result' = IF data_buffer = <<>> THEN "Empty" ELSE "Loaded"]_vars

\* C20's case: _load returned Empty while a monitor sleeps in its backoff.
C20_Witness ==
    /\ Reconnecting
    /\ running
    /\ reconnect_attempts > 0
    /\ load_pc = "idle"
    /\ load_result = "Empty"

\* stop_all_feeds returns
StopAllReturns == manager.pc = "stop_all" /\ manager'.returned = "stop_all"

\* the threads of a feed have left their loops
ThreadsExited(f) == f.monitor = "none" /\ f.drain = "none"

\* C16 as stated: stop_all_feeds returns only when the monitor and the drain
\* thread of every feed have exited (the code has no grace period that could
\* elapse instead).
C16_Original ==
    [][StopAllReturns => \A k \in DOMAIN data_feeds : ThreadsExited(data_feeds'[k])]_vars

\* C17: stop_all_feeds returns normally also when feeds were never started,
\* and when it returns every feed has been stopped and has its running flag
\* false.
C17_StopAllStopsEveryFeed ==
    [][/\ manager'.returned # "stop_all_raised"
       /\ StopAllReturns
            => \A k \in DOMAIN data_feeds :
                  data_feeds'[k].stopped /\ ~data_feeds'[k].running]_vars

\* C17's case: stop_all_feeds returned on a manager of which one feed had
\* its start() called and the other never had.
C17_Witness ==
    /\ manager.returned = "stop_all"
    /\ data_feeds["AAPL"].starts = 1
    /\ data_feeds["MSFT"].starts = 0
    /\ \A k \in DOMAIN data_feeds : data_feeds[k].stopped /\ ~data_feeds[k].running

\* what a status says about the state of its feed: everything but the name
ReportedState(st) == [st EXCEPT !.symbol = ""]

\* C18 as stated: the status of a feed whose monitor gave up differs from the
\* status of a feed that was started and then stopped without ever failing.
C18_Original ==
    \A j, k \in DOMAIN data_feeds :
        (/\ data_feeds[j].failed
         /\ data_feeds[k].starts > 0 /\ data_feeds[k].stopped /\ ~data_feeds[k].failed)
            => ReportedState(get_status[j]) # ReportedState(get_status[k])

\* C21: once stop() was called on a feed that was started (and is not
\* started again: the scenario calls start() once), the monitor thread and
\* the drain thread eventually leave their loops, wherever they were.
C21_ThreadsExitAfterStop ==
    (starts = 1 /\ stopped /\ ~running) ~> (monitor = EmptyBag /\ drain = EmptyBag)

\* C21's case: both threads are gone on a stopped feed whose second handle
\* is live, which stop() would have cancelled had it come after the
\* re-subscribe: stop() was called while the monitor slept in its backoff.
C21_Witness ==
    /\ starts = 1
    /\ stopped
    /\ ~running
    /\ Len(futures) = 2
    /\ futures[2] = "active"
    /\ enqueued > 0
    /\ monitor = EmptyBag
    /\ drain = EmptyBag


\* C22 as stated: under any sequence of start() and stop() calls at most one
\* drain thread of the feed is alive (the ring buffer has one writer).
C22_Original == BagCardinality(drain) <= 1

\* a step in which a drain thread finishes handling the message it took
DrainHandled(d) ==
    /\ d.pc = "process"
    /\ CopiesIn(d, drain') < CopiesIn(d, drain)

\* C23: a decodable message whose type is not "bar" is acknowledged by the
\* callback and discarded by the drain routine: neither step changes the
\* ring buffer, the last-bar snapshot, the running flag, the FAILED mark or
\* the reconnect counter, and no bar of such a message is ever buffered.
C23_OtherTypeIgnored ==
    [][/\ (CallbackStep /\ last_msg'.decodable /\ last_msg'.type # "bar")
            => /\ last_settle' = "ack"
               /\ UNCHANGED <<data_buffer, last_bar, running, failed, reconnect_attempts>>
       /\ \A d \in BagToSet(drain) :
            (DrainHandled(d) /\ d.msg.decodable /\ d.msg.type # "bar")
                => /\ UNCHANGED <<data_buffer, last_bar, running, failed, reconnect_attempts>>
                   /\ CopiesIn(DrainStart, drain') > CopiesIn(DrainStart, drain)]_vars

\* C23's case: the last message put into the queue was a trade for the
\* feed's symbol, the drain routine has handled it, and the feed still runs
\* with the bar it had buffered before.
C23_Witness ==
    /\ last_msg.decodable
    /\ last_msg.type = "trade"
    /\ last_msg.id = enqueued
    /\ enqueued = 2
    /\ Drained
    /\ \A d \in BagToSet(drain) : d.msg # last_msg
    /\ Len(arrivals) = 1
    /\ data_buffer = arrivals
    /\ last_bar = arrivals[1]
    /\ running
    /\ ~failed
    /\ reconnect_attempts = 0

\* the fields of a feed that belong to it alone
OwnState(f) == <<f.queue, f.buffer, f.last_bar, f.running, f.attempts>>

\* every feed but k keeps them in this step
OthersUntouched(k) ==
    \A j \in DOMAIN data_feeds \ {k} : OwnState(data_feeds'[j]) = OwnState(data_feeds[j])

\* the pass of stop_all_feeds that calls stop() on feed k
FeedStopStep(k) ==
    /\ manager.pc = "stop_all"
    /\ manager.i <= Len(feed_order)
    /\ feed_order[manager.i] = k
    /\ stop_all_feeds_step

\* C24: a delivery to feed k, a drain pass, a _load, a monitor step
\* (reconnection, giving up), a re-subscribe, a failure of its handle, the
\* exit of its drain thread or its stop() leaves the queue, ring buffer,
\* last-bar snapshot, running flag and reconnect counter of every other feed
\* as they were.
C24_FeedsIndependent ==
    [][\A k \in DOMAIN data_feeds :
         (\/ FeedDeliver(k)
          \/ FeedDrain(k)
          \/ FeedLoad(k)
          \/ FeedMonitor(k)
          \/ FeedReconnect(k)
          \/ FeedFutureFails(k)
          \/ FeedDrainExit(k)
          \/ FeedStopStep(k)) => OthersUntouched(k)]_vars

\* C24's case: AAPL runs with a bar buffered and its counter at 0, while
\* MSFT, on which stop() was called too, took a delivery that it never
\* drained and exhausted its retries.
C24_Witness ==
    /\ data_feeds["AAPL"].running
    /\ Len(data_feeds["AAPL"].buffer) = 1
    /\ data_feeds["AAPL"].last_bar # NoBar
    /\ data_feeds["AAPL"].attempts = 0
    /\ data_feeds["MSFT"].failed
    /\ data_feeds["MSFT"].stopped
    /\ data_feeds["MSFT"].attempts = max_reconnect_attempts
    /\ data_feeds["MSFT"].queue # <<>>
    /\ data_feeds["MSFT"].buffer = <<>>

\* C25: a step of get_status changes nothing but the dict being built, and
\* the entry it adds for a feed reports the number of bars in that feed's
\* ring buffer at that step, which does not exceed the capacity reported.
C25_StatusReadOnly ==
    [][(status' # status)
          => /\ UNCHANGED <<feed_vars, convert_vars, data_feeds, manager>>
             /\ (status.pc = "get_status" /\ status'.pc = "get_status")
                   => LET k == feed_order[status.i]
                          st == status'.result[status.i]
                      IN /\ st.symbol = k
                         /\ st.buffer_size = Len(data_feeds[k].buffer)
                         /\ st.buffer_size <= st.max_buffer_size
                         /\ st.running = data_feeds[k].running]_vars

\* C25's case: a get_status call is under way; the entry it made for AAPL
\* reports a full buffer after two bars were drained, and a _load has
\* emptied that buffer since.
C25_Witness ==
    /\ status.pc = "get_status"
    /\ Len(status.result) >= 1
    /\ status.result[1].buffer_size = status.result[1].max_buffer_size
    /\ status.result[1].last_bar_time = 2
    /\ data_feeds["AAPL"].buffer = <<>>

\* a feed that has its monitor thread
Supervised(f) == f.monitor # "none"

\* C29 as stated: if stop() is never called on a feed and every handle it
\* obtains eventually completes with an error, then once it has a monitor it
\* eventually becomes FAILED.
C29_Original ==
    \A k \in {feed_order[n] : n \in DOMAIN feed_order} :
        (/\ [](~data_feeds[k].stopped)
         /\ (data_feeds[k].future = "active") ~> (data_feeds[k].future = "error"))
            => (Supervised(data_feeds[k]) ~> data_feeds[k].failed)

\* C29 amended: once a feed's handle has completed with an error, with its
\* monitor alive and the flag set, the feed eventually becomes FAILED unless
\* it is stopped or a re-subscribe succeeds (which resets the counter).
C29_FailedUnlessResubscribed ==
    \A k \in {feed_order[n] : n \in DOMAIN feed_order} :
        (data_feeds[k].future = "error" /\ Supervised(data_feeds[k]) /\ data_feeds[k].running)
            ~> (\/ data_feeds[k].failed
                \/ data_feeds[k].stopped
                \/ data_feeds[k].future = "active")

\* C29's case: a feed that was never stopped gave up after its re-subscribes
\* kept raising.
C29_Witness ==
    /\ data_feeds["AAPL"].failed
    /\ ~data_feeds["AAPL"].stopped
    /\ data_feeds["AAPL"].future = "error"
    /\ data_feeds["AAPL"].attempts = max_reconnect_attempts
    /\ data_feeds["AAPL"].monitor = "none"


\* a timestamp the wire schema allows: an ISO-8601 string with a Z suffix, or
\* a number of epoch seconds
IsoZOrEpoch(ts) == (ts.kind = "str" /\ ts.suffix = "Z") \/ ts.kind = "number"

\* C26 as stated: a valid bar message whose timestamp is an ISO-8601 string
\* with a Z suffix or a number of epoch seconds is accepted into the ring
\* buffer, with the instant the timestamp denotes.
C26_Original ==
    (/\ conversion.done
     /\ IsValidBar(conversion.input)
     /\ IsoZOrEpoch(conversion.input.timestamp))
        => /\ data_buffer # <<>>
           /\ data_buffer[1].datetime = conversion.input.timestamp.secs

\* The part of C26 that the code keeps under either parser: epoch seconds,
\* and Z strings with a calendar date and no fraction or one of 3 or 6
\* digits, are accepted.
C26_IsoformatShapesAccepted ==
    (/\ conversion.done
     /\ IsValidBar(conversion.input)
     /\ IsoZOrEpoch(conversion.input.timestamp)
     /\ conversion.input.timestamp.kind = "str"
           => /\ conversion.input.timestamp.date = "calendar"
              /\ conversion.input.timestamp.frac \in {0, 3, 6})
        => /\ data_buffer # <<>>
           /\ data_buffer[1].datetime = conversion.input.timestamp.secs


\* C27 as stated: a feed whose start() failed at its subscribe (no handle was
\* ever obtained, no monitor and no drain thread exist) is not running, and
\* no _load call on it returns Empty or Loaded.
C27_Original ==
    (futures = <<>> /\ monitor = EmptyBag /\ drain = EmptyBag)
        => /\ ~running
           /\ load_result \notin {"Empty", "Loaded"}

\* C28 as stated: once stop() was called (on a feed started once), the flag
\* is clear and the monitor has left its loop, no handle the feed obtained is
\* still live.
C28_Original ==
    (starts = 1 /\ stopped /\ ~running /\ monitor = EmptyBag)
        => \A f \in DOMAIN futures : futures[f] # "active"

\* C30 as stated: the popleft of a _load call only returns a bar while the
\* feed is still running.
C30_Original ==
    [][(load_pc = "popleft" /\ load_result' = "Loaded") => running]_vars

\* C32: an invocation of the callback leaves the ring buffer, the last-bar
\* snapshot, the running flag, the FAILED mark, the reconnect counter, the
\* handles and every thread as they were, and the invocation that enqueues
\* a bar can run whatever the drain threads and _load are doing and however
\* many messages the queue holds: it waits for nothing.
C32_CallbackOnlyEnqueues ==
    [][/\ CallbackStep
            => UNCHANGED <<data_buffer, last_bar, running, failed, reconnect_attempts,
                           streaming_pull_future, futures, monitor, drain, load_vars>>
       /\ (enqueued < MaxEnqueued /\ Len(futures) > 0)
            => ENABLED Callback(ValidBar(enqueued + 1))]_vars

\* C32's case: the callback put a second message into the queue while the
\* first was still there, a drain thread was in the middle of its pass and
\* a _load call was under way.
C32_Witness ==
    /\ Len(message_queue) = 2
    /\ last_msg = message_queue[2]
    /\ load_pc # "idle"
    /\ \E d \in BagToSet(drain) : d.pc = "get"

\* C33: every invocation of the callback settles its message exactly once,
\* with an ack or with a nack, for every payload and in every feed state.
C33_SettledExactlyOnce ==
    [][CallbackStep
          => /\ Len(settled') = 1
             /\ settled'[1] \in {"ack", "nack"}
             /\ settled'[1] = last_settle']_vars

\* C33's case: an undecodable payload was nacked, once, on a feed that was
\* stopped.
C33_Witness ==
    /\ last_msg.id > 0
    /\ ~last_msg.decodable
    /\ settled = <<"nack">>
    /\ stopped
    /\ ~running

Overflowing(d) ==
    /\ DrainHandled(d)
    /\ process_market_data_message(d.msg) # NoBar
    /\ Len(data_buffer) = max_buffer_size

\* C39: pushing a bar onto a full ring buffer leaves the running flag, the
\* FAILED mark, the reconnect counter, the handles and the monitor as they
\* were; the bar is accepted (the oldest one makes room), the buffer stays
\* full and the drain thread goes on with its pass.
C39_OverflowIsNoError ==
    [][\A d \in BagToSet(drain) :
         Overflowing(d)
            => /\ UNCHANGED <<running, failed, reconnect_attempts, streaming_pull_future,
                              futures, monitor, message_queue>>
               /\ data_buffer' = Append(Tail(data_buffer), process_market_data_message(d.msg))
               /\ Len(data_buffer') = max_buffer_size
               /\ drain' = Moved(drain, d, [d EXCEPT !.pc = "set_last"])]_vars

\* C39's case: four bars went through a buffer that holds fewer; the feed
\* still runs, never failed or reconnected, and _load has just returned the
\* fourth bar, which was pushed onto the full buffer.
C39_Witness ==
    /\ Len(arrivals) = 4
    /\ max_buffer_size < 4
    /\ Drained
    /\ last_bar = arrivals[4]
    /\ lines = arrivals[4]
    /\ load_pc = "idle"
    /\ load_result = "Loaded"
    /\ running
    /\ ~failed
    /\ reconnect_attempts = 0

\* C34 as stated: whenever the ring buffer holds a bar, the last-bar snapshot
\* that get_buffer_status reads is the bar pushed last (the right end of the
\* deque), and a snapshot is only ever a bar that was pushed.
C34_Original ==
    /\ data_buffer # <<>> => last_bar = data_buffer[Len(data_buffer)]
    /\ last_bar # NoBar => last_bar \in Range(arrivals)

\* no drain thread is between its append and its assignment of last_bar
NoPushUnderWay == \A d \in BagToSet(drain) : d.pc # "set_last"

\* C34 outside that window: when no drain thread is between the two
\* statements, the snapshot is the bar pushed last.  This holds for a feed
\* with one drain thread (ScenarioSpec) and fails in Spec, where two drain
\* threads assign last_bar in the order opposite to their appends.
C34_SnapshotWhenQuiet ==
    (NoPushUnderWay /\ data_buffer # <<>>) => last_bar = data_buffer[Len(data_buffer)]

\* C38 as stated: in every reachable state the attempt count lies between 0
\* and max_reconnect_attempts.
C38_Original ==
    /\ reconnect_attempts >= 0
    /\ reconnect_attempts <= max_reconnect_attempts

\* What bounds the count instead: every monitor that passed the test of
\* line 133 before the others counted adds one, so the count exceeds the
\* maximum by at most the number of further start() calls.
C38_BoundedByStarts ==
    /\ reconnect_attempts >= 0
    /\ starts >= 1 => reconnect_attempts <= max_reconnect_attempts + (starts - 1)
    /\ starts = 0 => reconnect_attempts = 0

\* the n-th delivered bar waits in the mailbox
InMailbox(n) == \E i \in DOMAIN message_queue : message_queue[i].id = n

\* the n-th delivered bar is in the ring buffer
InBuffer(n) == process_market_data_message(ValidBar(n)) \in BufferSet

\* C31 as stated: with the threads scheduled fairly, a valid bar that waits
\* in the mailbox of a running feed reaches the ring buffer, unless the feed
\* stops running first.
C31_Original ==
    \A n \in 1..4 : (running /\ InMailbox(n)) ~> (InBuffer(n) \/ ~running)

\* C35 as stated: a valid bar is appended whatever its timestamp and the
\* timestamps of the bars already buffered, and the bars _load returns are
\* bars as they arrived, each one having arrived after the one returned
\* before it (the close of the n-th arrival is 9 + n).
C35_Original ==
    [][/\ \A d \in BagToSet(drain) :
            (DrainHandled(d) /\ IsValidBar(d.msg))
                => data_buffer' = DequeAppend(data_buffer, process_market_data_message(d.msg))
       /\ (load_pc = "popleft" /\ load_result' = "Loaded")
            => /\ lines' \in Range(arrivals)
               /\ lines'.close > lines.close]_vars

\* C35 for a feed started once: the same, and here it holds; a bar that is
\* not later than its predecessor is returned after it.
C35_ArrivalOrderWithOneDrain ==
    [][starts = 1
          => /\ \A d \in BagToSet(drain) :
                  (DrainHandled(d) /\ IsValidBar(d.msg))
                      => data_buffer' = DequeAppend(data_buffer, process_market_data_message(d.msg))
             /\ (load_pc = "popleft" /\ load_result' = "Loaded")
                  => /\ lines' \in Range(arrivals)
                     /\ lines'.close > lines.close]_vars

\* every feed made by an add call
Created == DOMAIN cerebro

\* C37 as stated: when start_all_feeds has returned, every feed that was
\* created has been started; when stop_all_feeds has returned, every feed
\* that was created has been stopped; the dict get_status returns has one
\* entry for every feed that was created.
C37_Original ==
    /\ manager.returned = "start_all"
          => \A j \in Created : FeedObject(j).starts >= 1 /\ FeedObject(j).running
    /\ manager.returned = "stop_all"
          => \A j \in Created : FeedObject(j).stopped /\ ~FeedObject(j).running
    /\ manager.returned = "status"
          => Cardinality(DOMAIN status.result) = Cardinality(Created)

\* What the bulk operations do cover: the feeds the dict holds, one for
\* every key.
C37_CoversHeldFeeds ==
    /\ manager.returned = "start_all"
          => \A j \in Created : Held(j) => (FeedObject(j).starts >= 1 /\ FeedObject(j).running)
    /\ manager.returned = "stop_all"
          => \A j \in Created : Held(j) => (FeedObject(j).stopped /\ ~FeedObject(j).running)
    /\ manager.returned = "status"
          => /\ DOMAIN status.result = {cerebro[j].key : j \in Created}
             /\ \A j \in Created : Held(j) => status.result[cerebro[j].key] = get_buffer_status(cerebro[j].key)

====
